---- MODULE Spec2Model ----
(***************************************************************************)
(* FluidNC / GRBL status LED indicator (src/src/main.cpp).                 *)
(*                                                                         *)
(* The firmware is one cooperative loop: every call of loop() reads the    *)
(* millisecond clock, lets parse_status() drain the UART into a short line *)
(* buffer and classify a completed line, drives the boot latch, the status *)
(* colour, the "?\n" poll and the pre-boot blink.                          *)
(*                                                                         *)
(* uint32_t values are stored as their 32-bit two's-complement pattern     *)
(* (0 .. 2^31-1 as themselves, 2^31 .. 2^32-1 as value - 2^32), and the    *)
(* arithmetic on them is done on two 16-bit limbs, so that the unsigned    *)
(* wrap-around of the source is exact.                                     *)
(***************************************************************************)
EXTENDS Integers, Sequences, FiniteSets, TLC

VARIABLES
    clock,              \* last value millis() returned (setup() or loop())
    rx,                 \* bytes sent by the controller and not yet read
    sent,               \* number of lines the controller has sent so far
    lineBuf,            \* parse_status: static char lineBuf[MAX_PARSE_LEN]
    idx,                \* parse_status: static uint8_t idx
    seenBooted,         \* boot latch
    lastShown,          \* last status handed to showStatus
    lastBlinkToggleMs,
    blinkPhase,         \* FALSE: red, TRUE: purple
    lastKnownStatusMs,
    lastRequestMs,
    color,              \* colour the pixels show (last setColor argument)
    st,                 \* loop: the local st of the last call
    written,            \* setColor calls of the last loop() call, in order
    polls,              \* every uart_write_str("?\n"): its now and the latch
    bootedAtMs          \* now of the call that set seenBooted (0 before it)

vars == <<clock, rx, sent, lineBuf, idx, seenBooted, lastShown,
          lastBlinkToggleMs, blinkPhase, lastKnownStatusMs, lastRequestMs,
          color, st, written, polls, bootedAtMs>>

-----------------------------------------------------------------------------
(* Program constants *)

COL_RED == 16711680
COL_ORA == 16736000
COL_YEL == 16764672
COL_GRN == 65280
COL_CYA == 32767
COL_PUR == 16711935

BLINK_INTERVAL     == 250
REQUEST_TIMEOUT_MS == 5000

MAX_PARSE_LEN == 25

BOOTED  == 0
IDLE    == 1
RUN     == 2
HOLD    == 3
JOG     == 4
DOOR    == 5
HOME    == 6
ALARM   == 7
UNKNOWN == 255

NUL == "\\0"
CR  == "\r"
LF  == "\n"

MSG_BOOTED == <<"[","M","S","G",":","I","N","F","O",":"," ",
                "C","o","n","n","e","c","t","e","d">>
MSG_IDLE   == <<"<","I","d","l","e">>
MSG_RUN    == <<"<","R","u","n">>
MSG_HOLD   == <<"<","H","o","l","d">>
MSG_JOG    == <<"<","J","o","g">>
MSG_DOOR   == <<"<","D","o","o","r">>
MSG_HOME   == <<"<","H","o","m","e">>
MSG_ALARM  == <<"<","A","l","a","r","m">>

-----------------------------------------------------------------------------
(* Bounds of the model *)

MaxClock      == 15000  \* loop() is not called with millis() beyond this
MaxBlinkClock == 1000   \* the same, where the clock advances in blink steps
MaxLines      == 3      \* lines the controller sends in one behaviour
Chunk         == 8      \* bytes of a line in flight that arrive before a call
MaxParseClock == 250    \* the same as MaxClock, where lines queue up unread
MaxParseLines == 2      \* lines the controller sends where they queue up
MaxClassifyLines == 2   \* lines the controller sends to be classified
MaxWrapClock  == 8000  \* the same, counted past the wrap of millis()
LongFill      == 26     \* filler chars of the overlong line

-----------------------------------------------------------------------------
(* uint32_t arithmetic *)

Limb == 2^16

Hi(a) == (a \div Limb) % Limb
Lo(a) == a % Limb

\* the stored pattern of the uint32_t with limbs hi, lo
U32(hi, lo) == (IF hi >= Limb \div 2 THEN hi - Limb ELSE hi) * Limb + lo

\* (uint32_t)(a + b)
Add32(a, b) ==
    LET lo == Lo(a) + Lo(b)
        cy == lo \div Limb
    IN  U32((Hi(a) + Hi(b) + cy) % Limb, lo % Limb)

\* (uint32_t)(a - b)
Sub32(a, b) ==
    LET lo == Lo(a) - Lo(b)
        bw == IF lo < 0 THEN 1 ELSE 0
    IN  U32((Hi(a) - Hi(b) - bw) % Limb, lo % Limb)

\* a >= b, both unsigned
GeU32(a, b) == Hi(a) > Hi(b) \/ (Hi(a) = Hi(b) /\ Lo(a) >= Lo(b))

-----------------------------------------------------------------------------
(* parse_status *)

\* strncmp(buf, msg, strlen(msg)) == 0: msg holds no NUL, so the comparison
\* succeeds exactly when the first strlen(msg) chars of buf are those of msg
PrefixMatchShort(buf, msg) == \A j \in 1..(Len(msg) - 1) : buf[j - 1] = msg[j]
PrefixMatch(buf, msg) == \A j \in 1..Len(msg) : buf[j - 1] = msg[j]

\* the greeting of a Grbl controller, for which the table has no entry
GrblText == <<"G", "r", "b", "l">>

\* a table that had such an entry
ClassifyWithGrbl(buf) ==
    IF buf[0] = NUL THEN UNKNOWN
    ELSE IF PrefixMatch(buf, GrblText)   THEN BOOTED
    ELSE IF PrefixMatch(buf, MSG_BOOTED) THEN BOOTED
    ELSE IF PrefixMatch(buf, MSG_IDLE)   THEN IDLE
    ELSE IF PrefixMatch(buf, MSG_RUN)    THEN RUN
    ELSE IF PrefixMatch(buf, MSG_HOLD)   THEN HOLD
    ELSE IF PrefixMatch(buf, MSG_JOG)    THEN JOG
    ELSE IF PrefixMatch(buf, MSG_DOOR)   THEN DOOR
    ELSE IF PrefixMatch(buf, MSG_HOME)   THEN HOME
    ELSE IF PrefixMatch(buf, MSG_ALARM)  THEN ALARM
    ELSE UNKNOWN

\* the prefix table, in the order of the comparisons
Classify(buf) ==
    IF buf[0] = NUL THEN UNKNOWN
    ELSE IF PrefixMatch(buf, MSG_BOOTED) THEN BOOTED
    ELSE IF PrefixMatch(buf, MSG_IDLE)   THEN IDLE
    ELSE IF PrefixMatch(buf, MSG_RUN)    THEN RUN
    ELSE IF PrefixMatch(buf, MSG_HOLD)   THEN HOLD
    ELSE IF PrefixMatch(buf, MSG_JOG)    THEN JOG
    ELSE IF PrefixMatch(buf, MSG_DOOR)   THEN DOOR
    ELSE IF PrefixMatch(buf, MSG_HOME)   THEN HOME
    ELSE IF PrefixMatch(buf, MSG_ALARM)  THEN ALARM
    ELSE UNKNOWN

\* room for one more char before the reserved terminator
HasRoomNoTerminator(i) == i < MAX_PARSE_LEN
HasRoom(i) == i < MAX_PARSE_LEN - 1

\* The while loop of parse_status: q are the unread bytes, of which the
\* first n have arrived (uart_available() is true for them).  Returns the
\* buffer, the cursor, the bytes left unread and the returned Status.
RECURSIVE ParseNoTerminator(_, _, _, _)
ParseNoTerminator(buf, i, q, n) ==
    IF n = 0
    THEN [lineBuf |-> buf, idx |-> i, rx |-> q, st |-> UNKNOWN]
    ELSE LET c == Head(q) IN
         IF c = CR THEN ParseNoTerminator(buf, i, Tail(q), n - 1)
         ELSE IF c = LF
         THEN [lineBuf |-> buf, idx |-> 0, rx |-> Tail(q), st |-> Classify(buf)]
         ELSE IF HasRoom(i)
         THEN ParseNoTerminator([buf EXCEPT ![i] = c], i + 1, Tail(q), n - 1)
         ELSE ParseNoTerminator(buf, i, Tail(q), n - 1)

\* the loop in three shapes: "stop" returns at the line feed, "first" and
\* "last" read on to the end of the arrived bytes and return the status of
\* the first or of the last recognized line
RECURSIVE ParseVariant(_, _, _, _, _)
ParseVariant(mode, buf, i, q, n) ==
    IF n = 0
    THEN [lineBuf |-> buf, idx |-> i, rx |-> q, st |-> UNKNOWN]
    ELSE LET c == Head(q) IN
         IF c = CR THEN ParseVariant(mode, buf, i, Tail(q), n - 1)
         ELSE IF c = LF
         THEN LET b == [buf EXCEPT ![i] = NUL]
                  s == Classify(b)
              IN  IF mode = "stop" \/ n = 1
                  THEN [lineBuf |-> b, idx |-> 0, rx |-> Tail(q), st |-> s]
                  ELSE LET r == ParseVariant(mode, b, 0, Tail(q), n - 1)
                       IN  [r EXCEPT !.st =
                              IF mode = "last" /\ r.st # UNKNOWN THEN r.st
                              ELSE IF mode = "first" /\ s = UNKNOWN THEN r.st
                              ELSE s]
         ELSE IF HasRoom(i)
         THEN ParseVariant(mode, [buf EXCEPT ![i] = c], i + 1, Tail(q), n - 1)
         ELSE ParseVariant(mode, buf, i, Tail(q), n - 1)

ParseDrainFirst(buf, i, q, n) == ParseVariant("first", buf, i, q, n)
ParseDrainLast(buf, i, q, n) == ParseVariant("last", buf, i, q, n)
ParseRestart(buf, i, q, n) == ParseVariant("stop", buf, 0, q, n)

RECURSIVE ParseStatus(_, _, _, _)
ParseStatus(buf, i, q, n) ==
    IF n = 0
    THEN [lineBuf |-> buf, idx |-> i, rx |-> q, st |-> UNKNOWN]
    ELSE LET c == Head(q) IN
         IF c = CR THEN ParseStatus(buf, i, Tail(q), n - 1)
         ELSE IF c = LF
         THEN LET b == [buf EXCEPT ![i] = NUL]
              IN  [lineBuf |-> b, idx |-> 0, rx |-> Tail(q), st |-> Classify(b)]
         ELSE IF HasRoom(i)
         THEN ParseStatus([buf EXCEPT ![i] = c], i + 1, Tail(q), n - 1)
         ELSE ParseStatus(buf, i, Tail(q), n - 1)

-----------------------------------------------------------------------------
(* showStatus *)

\* the setColor calls showStatus(s) makes
ShowStatus(s) ==
    CASE s = BOOTED -> <<COL_GRN>>
      [] s = IDLE   -> <<COL_GRN>>
      [] s = RUN    -> <<COL_CYA>>
      [] s = HOLD   -> <<COL_YEL>>
      [] s = JOG    -> <<COL_PUR>>
      [] s = DOOR   -> <<COL_ORA>>
      [] s = HOME   -> <<COL_PUR>>
      [] s = ALARM  -> <<COL_RED>>
      [] OTHER      -> <<>>

-----------------------------------------------------------------------------
(* the decisions of loop() *)

\* the outer test and the two branches of the classification path
HandledBeforeBoot(s, sb) == s # UNKNOWN
Handled(s, sb) == s # UNKNOWN /\ (s = BOOTED \/ sb)

\* seenBooted after the classification path
LatchFollowsStatus(s, sb) == s = BOOTED
LatchAfter(s, sb) == IF s = BOOTED THEN TRUE ELSE sb

\* lastKnownStatusMs after the classification path
KnownNotOnBooted(s, sb, now, lk) ==
    IF s # UNKNOWN /\ s # BOOTED /\ sb THEN now ELSE lk
KnownAfter(s, sb, now, lk) == IF Handled(s, sb) THEN now ELSE lk

\* lastRequestMs after the classification path
RequestEveryCall(s, now, lr) == now
RequestNeverReset(s, now, lr) == lr
RequestAfter(s, now, lr) == IF s = BOOTED THEN now ELSE lr

\* if (st != lastShown) in both branches
ShowSkipsBooted(s, sb, ls) == Handled(s, sb) /\ s # ls /\ s # BOOTED
ShowAlways(s, sb, ls) == Handled(s, sb)
ShowNeeded(s, sb, ls) == Handled(s, sb) /\ s # ls

\* the poll condition
PollDueAfterBoot(now, lk, lr) ==
    /\ seenBooted
    /\ GeU32(Sub32(now, lk), REQUEST_TIMEOUT_MS)
    /\ GeU32(Sub32(now, lr), REQUEST_TIMEOUT_MS)
PollDueNoRateLimit(now, lk, lr) ==
    GeU32(Sub32(now, lk), REQUEST_TIMEOUT_MS)
PollDueStrict(now, lk, lr) ==
    /\ ~GeU32(REQUEST_TIMEOUT_MS, Sub32(now, lk))
    /\ ~GeU32(REQUEST_TIMEOUT_MS, Sub32(now, lr))
PollDue(now, lk, lr) ==
    /\ GeU32(Sub32(now, lk), REQUEST_TIMEOUT_MS)
    /\ GeU32(Sub32(now, lr), REQUEST_TIMEOUT_MS)

\* the blink condition
BlinkAfterBoot(now, sb, lb) ==
    GeU32(Sub32(now, lb), BLINK_INTERVAL)
BlinkDueStrict(now, sb, lb) ==
    ~sb /\ ~GeU32(BLINK_INTERVAL, Sub32(now, lb))
BlinkDue(now, sb, lb) ==
    ~sb /\ GeU32(Sub32(now, lb), BLINK_INTERVAL)

BlinkColor(phase) == IF phase THEN COL_PUR ELSE COL_RED

-----------------------------------------------------------------------------
(* Inputs *)

\* the lines the controller sends
BootLine == MSG_BOOTED \o
            <<" ","t","o"," ","s","y","s","t","e","m","]", LF>>
IdleLine == MSG_IDLE \o <<">", LF>>
RunLine  == MSG_RUN \o <<">", CR, LF>>
OkLine   == <<"o", "k", LF>>
Lines    == {BootLine, IdleLine, RunLine, OkLine}

\* a line longer than the buffer, whose dropped tail reads like a status
LongLine   == [j \in 1..LongFill |-> "x"] \o MSG_RUN \o <<LF>>
EmptyLine  == <<CR, LF>>
ParseLines == {LongLine, BootLine, IdleLine, EmptyLine}

\* milliseconds between two readings of millis(): around the poll timeout
Steps == {0, REQUEST_TIMEOUT_MS \div 2, REQUEST_TIMEOUT_MS - 1}

\* the same, around the blink interval
BlinkSteps == {0, BLINK_INTERVAL - 1, BLINK_INTERVAL}

\* millis() when setup() reads it
SetupTimes == {0}

\* how many of the unread bytes q have arrived when parse_status() runs:
\* all of them, or the first Chunk of a line still in flight
Avail(q) == {Len(q)} \cup {k \in {Chunk} : k < Len(q)}

-----------------------------------------------------------------------------
(* State machine *)

\* the static initialisers and setup()
Init ==
    /\ clock \in SetupTimes
    /\ rx = <<>>
    /\ sent = 0
    /\ lineBuf = [j \in 0..(MAX_PARSE_LEN - 1) |-> NUL]
    /\ idx = 0
    /\ seenBooted = FALSE
    /\ lastShown = UNKNOWN
    /\ lastBlinkToggleMs = clock
    /\ blinkPhase = FALSE
    /\ lastKnownStatusMs = 0
    /\ lastRequestMs = 0
    /\ color = COL_RED
    /\ st = UNKNOWN
    /\ written = <<COL_RED>>
    /\ polls = <<>>
    /\ bootedAtMs = 0

\* the controller sends one more line, once the last one has been read
SendLine(l) ==
    /\ sent < MaxLines
    /\ rx = <<>>
    /\ rx' = rx \o l
    /\ sent' = sent + 1
    /\ UNCHANGED <<clock, lineBuf, idx, seenBooted, lastShown,
                   lastBlinkToggleMs, blinkPhase, lastKnownStatusMs,
                   lastRequestMs, color, st, written, polls, bootedAtMs>>

\* the body of loop() once millis() has returned now and parse_status() the
\* record p
LoopBody(now, p) ==
    LET s     == p.st
        sb    == LatchAfter(s, seenBooted)
        lk    == KnownAfter(s, seenBooted, now, lastKnownStatusMs)
        lr    == RequestAfter(s, now, lastRequestMs)
        show  == ShowNeeded(s, seenBooted, lastShown)
        w1    == IF show THEN ShowStatus(s) ELSE <<>>
        poll  == PollDue(now, lk, lr)
        blink == BlinkDue(now, sb, lastBlinkToggleMs)
        ph    == IF blink THEN ~blinkPhase ELSE blinkPhase
        w2    == IF blink THEN <<BlinkColor(ph)>> ELSE <<>>
        w     == w1 \o w2
    IN  /\ clock' = now
        /\ rx' = p.rx
        /\ lineBuf' = p.lineBuf
        /\ idx' = p.idx
        /\ st' = s
        /\ seenBooted' = sb
        /\ bootedAtMs' = IF sb /\ ~seenBooted THEN now ELSE bootedAtMs
        /\ lastKnownStatusMs' = lk
        /\ lastShown' = IF show THEN s ELSE lastShown
        /\ lastRequestMs' = IF poll THEN now ELSE lr
        /\ polls' = IF poll THEN Append(polls, [ms |-> now, booted |-> sb])
                    ELSE polls
        /\ blinkPhase' = ph
        /\ lastBlinkToggleMs' = IF blink THEN now ELSE lastBlinkToggleMs
        /\ written' = w
        /\ color' = IF w = <<>> THEN color ELSE w[Len(w)]
        /\ UNCHANGED sent

\* one call of loop(): millis() has advanced by d, and the first n unread
\* bytes have arrived
Loop(d, n) ==
    \E now \in {Add32(clock, d)}, p \in {ParseStatus(lineBuf, idx, rx, n)} :
        LoopBody(now, p)

Next ==
    \/ \E l \in Lines : SendLine(l)
    \/ \E d \in Steps, n \in Avail(rx) : clock + d <= MaxClock /\ Loop(d, n)

Spec == Init /\ [][Next]_vars

\* the first second after setup(), the clock advancing in blink steps
BlinkNext ==
    \/ \E l \in Lines : SendLine(l)
    \/ \E d \in BlinkSteps, n \in Avail(rx) :
            clock + d <= MaxBlinkClock /\ Loop(d, n)

SpecBlink == Init /\ [][BlinkNext]_vars

\* the controller sends one more line while earlier ones are still unread
\* (the transport holds unread bytes until they are read)
\* the counts of arrived bytes that end before or at the first line feed
UpToLineFeed(q) == {n \in 0..Len(q) : \A j \in 1..(n - 1) : q[j] # LF}

QueueLine(l) ==
    /\ sent < MaxParseLines
    /\ rx' = rx \o l
    /\ sent' = sent + 1
    /\ UNCHANGED <<clock, lineBuf, idx, seenBooted, lastShown,
                   lastBlinkToggleMs, blinkPhase, lastKnownStatusMs,
                   lastRequestMs, color, st, written, polls, bootedAtMs>>

\* lines queue up, and a call finds arrived any number of the unread bytes
\* up to the first line feed, or all of them
ParseNext ==
    \/ \E l \in ParseLines : QueueLine(l)
    \/ \E d \in {0, BLINK_INTERVAL}, n \in UpToLineFeed(rx) \cup {Len(rx)} :
            clock + d <= MaxParseClock /\ Loop(d, n)

SpecParse == Init /\ [][ParseNext]_vars

\* 2296 ms before millis() wraps: 2^32 - 2296 is a multiple of
\* REQUEST_TIMEOUT_MS and of BLINK_INTERVAL, held as its 32-bit pattern
BeforeWrap == 0 - 2296

\* The program after 49.7 days of silence with loop() called every
\* millisecond: no status was ever handled, polls went out at every multiple
\* of REQUEST_TIMEOUT_MS, the last one just now, and the blink has toggled
\* an even number of times, the last time just now.
InitWrap ==
    /\ clock = BeforeWrap
    /\ rx = <<>>
    /\ sent = 0
    /\ lineBuf = [j \in 0..(MAX_PARSE_LEN - 1) |-> NUL]
    /\ idx = 0
    /\ seenBooted = FALSE
    /\ lastShown = UNKNOWN
    /\ lastBlinkToggleMs = BeforeWrap
    /\ blinkPhase = FALSE
    /\ lastKnownStatusMs = 0
    /\ lastRequestMs = BeforeWrap
    /\ color = COL_RED
    /\ st = UNKNOWN
    /\ written = <<COL_RED>>
    /\ polls = <<[ms |-> BeforeWrap, booted |-> FALSE]>>
    /\ bootedAtMs = 0

\* loop() called across the wrap of millis()
WrapNext ==
    \/ \E l \in Lines : SendLine(l)
    \/ \E d \in Steps, n \in Avail(rx) :
            clock + d <= MaxWrapClock /\ Loop(d, n)

SpecWrap == InitWrap /\ [][WrapNext]_vars

\* the strncmp table of parse_status, in the order of its comparisons
Table ==
    << [prefix |-> MSG_BOOTED, status |-> BOOTED],
       [prefix |-> MSG_IDLE,   status |-> IDLE],
       [prefix |-> MSG_RUN,    status |-> RUN],
       [prefix |-> MSG_HOLD,   status |-> HOLD],
       [prefix |-> MSG_JOG,    status |-> JOG],
       [prefix |-> MSG_DOOR,   status |-> DOOR],
       [prefix |-> MSG_HOME,   status |-> HOME],
       [prefix |-> MSG_ALARM,  status |-> ALARM] >>

Prefixes == {Table[k].prefix : k \in 1..Len(Table)}

\* the other letter case of the letters at positions 2 and 3 of the prefixes
CaseFlip ==
    ("M" :> "m") @@ ("I" :> "i") @@ ("R" :> "r") @@ ("H" :> "h") @@
    ("J" :> "j") @@ ("D" :> "d") @@ ("A" :> "a") @@ ("S" :> "s") @@
    ("d" :> "D") @@ ("u" :> "U") @@ ("o" :> "O") @@ ("l" :> "L")

\* line texts (without the line feed) the controller may send: the prefixes,
\* longer lines beginning with them, their proper prefixes, the same in
\* another letter case, lines with a CR, and lines that match nothing
TestTexts ==
    Prefixes
    \cup {p \o <<">">> : p \in Prefixes}
    \cup {SubSeq(p, 1, Len(p) - 1) : p \in Prefixes}
    \cup {[p EXCEPT ![2] = CaseFlip[p[2]]] : p \in Prefixes}
    \cup {[p EXCEPT ![3] = CaseFlip[p[3]]] : p \in Prefixes}
    \cup {<<>>, <<"<">>, <<"o", "k">>, GrblText, GrblText \o <<" ", "1", ".", "1">>,
          MSG_IDLE \o <<CR>>, <<CR>> \o MSG_RUN,
          SubSeq(BootLine, 1, Len(BootLine) - 1)}

\* the controller sends one line, once the last one has been read
SendText(t) ==
    /\ sent < MaxClassifyLines
    /\ rx = <<>>
    /\ rx' = t \o <<LF>>
    /\ sent' = sent + 1
    /\ UNCHANGED <<clock, lineBuf, idx, seenBooted, lastShown, lastBlinkToggleMs, blinkPhase, lastKnownStatusMs, lastRequestMs, color, st, written, polls, bootedAtMs>>

\* lines read whole, one per call of loop(), the clock standing still
ClassifyNext ==
    \/ \E t \in TestTexts : SendText(t)
    \/ rx # <<>> /\ Loop(0, Len(rx))

SpecClassify == Init /\ [][ClassifyNext]_vars

\* loop() is called again and again while the clock advances
AdvancingTick ==
    \E d \in Steps \ {0}, n \in Avail(rx) :
        clock + d <= MaxClock /\ Loop(d, n)

FairSpec == Spec /\ WF_vars(AdvancingTick)

-----------------------------------------------------------------------------
(* Properties *)

\* a step of loop() (SendLine is the only other action, and it counts lines)
Tick == sent' = sent

\* the last recorded poll
LastPoll == polls[Len(polls)]

\* C1: the boot latch is one-way: it is false after setup(), it is set only
\* by a call of loop() whose classification is BOOTED, and once set it stays
\* set in every later step.
C1_LatchOneWay ==
    /\ ~seenBooted
    /\ [][ /\ (seenBooted => seenBooted')
           /\ (~seenBooted /\ seenBooted' => Tick /\ st' = BOOTED) ]_vars

\* a later call, with another classification, found the latch set and left it set
C1_Witness ==
    seenBooted /\ st = RUN /\ lastShown = RUN /\ clock # bootedAtMs

\* C2: any two consecutive emissions of the poll token are at least
\* REQUEST_TIMEOUT_MS apart.
C2_NoBurst ==
    \A i \in 1..(Len(polls) - 1) :
        GeU32(Sub32(polls[i + 1].ms, polls[i].ms), REQUEST_TIMEOUT_MS)

\* two polls have been sent
C2_Witness == Len(polls) >= 2

\* the controller has gone silent for good: nothing unread, nothing to come
Silent == sent = MaxLines /\ rx = <<>>

\* the time within which repeated calls reach a call REQUEST_TIMEOUT_MS later
PollHorizon == REQUEST_TIMEOUT_MS + REQUEST_TIMEOUT_MS \div 2

\* the call that last read the clock sent a poll
PolledNow == Len(polls) > 0 /\ LastPoll.ms = clock

\* C3: polling does not stop during silence: from every state in which the
\* controller is silent for good (with the horizon of the model still
\* ahead), whatever was sent before, a call that sends a poll follows.
C3_PollsRepeat ==
    (Silent /\ clock + PollHorizon <= MaxClock) ~> PolledNow

\* silence in which the poll was repeated one timeout after the last one
C3_Witness ==
    /\ Silent
    /\ Len(polls) >= 2
    /\ Sub32(LastPoll.ms, polls[Len(polls) - 1].ms) = REQUEST_TIMEOUT_MS

\* C4: a call in which less than REQUEST_TIMEOUT_MS has elapsed since
\* lastKnownStatusMs sends no poll, and the first call in which at least
\* REQUEST_TIMEOUT_MS has elapsed sends exactly one.
C4_PollThreshold ==
    [][ LET due    == GeU32(Sub32(clock', lastKnownStatusMs'),
                            REQUEST_TIMEOUT_MS)
            before == GeU32(Sub32(clock, lastKnownStatusMs),
                            REQUEST_TIMEOUT_MS)
        IN  /\ (~due => polls' = polls)
            /\ (due /\ ~before =>
                    /\ Len(polls') = Len(polls) + 1
                    /\ polls'[Len(polls')].ms = clock'
                    /\ lastRequestMs' = clock') ]_vars

\* a poll sent exactly REQUEST_TIMEOUT_MS after a recognized status
C4_Witness ==
    /\ seenBooted
    /\ Len(polls) >= 1
    /\ LastPoll.ms = clock
    /\ Sub32(clock, lastKnownStatusMs) = REQUEST_TIMEOUT_MS

\* the times the next calls may read, seen from now
Ahead(now) ==
    {Add32(now, e) : e \in {0, REQUEST_TIMEOUT_MS - 1, REQUEST_TIMEOUT_MS,
                             REQUEST_TIMEOUT_MS + BLINK_INTERVAL}}

\* C5 as claimed: BOOTED handled while the latch is set leaves
\* lastRequestMs unchanged.
C5_AsClaimed ==
    [][ Tick /\ seenBooted /\ st' = BOOTED =>
            /\ lastKnownStatusMs' = clock'
            /\ lastRequestMs' = lastRequestMs ]_vars

\* C5: BOOTED handled while the latch is set sets lastKnownStatusMs and
\* lastRequestMs to now, sends no poll, and the next poll is due at the same
\* calls as it would be had lastRequestMs been left alone.
C5_BootedAgain ==
    [][ Tick /\ seenBooted /\ st' = BOOTED =>
            /\ seenBooted'
            /\ lastKnownStatusMs' = clock'
            /\ lastRequestMs' = clock'
            /\ polls' = polls
            /\ \A t \in Ahead(clock') :
                   PollDue(t, lastKnownStatusMs', lastRequestMs')
                     = PollDue(t, lastKnownStatusMs', lastRequestMs) ]_vars

\* BOOTED was handled at a later time than the one that set the latch, and
\* moved lastRequestMs past the last poll
C5_Witness ==
    /\ seenBooted
    /\ st = BOOTED
    /\ clock # bootedAtMs
    /\ lastKnownStatusMs = clock
    /\ lastRequestMs = clock
    /\ Len(polls) >= 1

\* C6: the call that handles BOOTED while the latch is not set ends with the
\* latch set, both poll timers at now, green shown by one display write,
\* lastShown BOOTED and no poll sent; and no poll sent with the latch set is
\* earlier than REQUEST_TIMEOUT_MS after that call.
C6_BootTransition ==
    /\ [](\A i \in 1..Len(polls) :
            polls[i].booted =>
                GeU32(Sub32(polls[i].ms, bootedAtMs), REQUEST_TIMEOUT_MS))
    /\ [][ Tick /\ ~seenBooted /\ st' = BOOTED =>
            /\ seenBooted'
            /\ bootedAtMs' = clock'
            /\ lastKnownStatusMs' = clock'
            /\ lastRequestMs' = clock'
            /\ written' = <<COL_GRN>>
            /\ color' = COL_GRN
            /\ lastShown' = BOOTED
            /\ polls' = polls ]_vars

\* the latch was set by a call made after the first poll was due, and a
\* poll followed one timeout later
C6_Witness ==
    /\ seenBooted
    /\ bootedAtMs = REQUEST_TIMEOUT_MS + REQUEST_TIMEOUT_MS \div 2
    /\ Len(polls) >= 2
    /\ LastPoll.booted
    /\ Sub32(LastPoll.ms, bootedAtMs) = REQUEST_TIMEOUT_MS

\* C7: a call that handles a recognized status equal to lastShown writes
\* nothing to the display; a handled status that differs from lastShown is
\* written once and becomes lastShown, so the second of two identical
\* statuses in a row adds no write to that of the first.
C7_NoRedundantWrite ==
    [][ Tick /\ st' # UNKNOWN =>
            /\ (st' = lastShown =>
                    /\ written' = <<>>
                    /\ color' = color
                    /\ lastShown' = lastShown)
            /\ (seenBooted' /\ st' # lastShown =>
                    /\ written' = ShowStatus(st')
                    /\ Len(written') = 1
                    /\ lastShown' = st') ]_vars

\* the status just handled was the one already shown: nothing was written
C7_Witness ==
    /\ seenBooted
    /\ st = RUN
    /\ lastShown = RUN
    /\ written = <<>>
    /\ lastKnownStatusMs = clock

\* C8: while the latch is not set, a call that classifies a line as anything
\* but BOOTED leaves seenBooted, lastShown and lastKnownStatusMs alone,
\* changes lastRequestMs only by sending a poll, and writes at most the
\* blink colour.
C8_IgnoredWhilePending ==
    [][ Tick /\ ~seenBooted /\ st' # UNKNOWN /\ st' # BOOTED =>
            /\ ~seenBooted'
            /\ lastShown' = lastShown
            /\ lastKnownStatusMs' = lastKnownStatusMs
            /\ lastRequestMs' =
                   (IF polls' # polls THEN clock' ELSE lastRequestMs)
            /\ written' \in {<<>>, <<BlinkColor(blinkPhase')>>}
            /\ (blinkPhase' = blinkPhase => written' = <<>>) ]_vars

\* a status line was classified and ignored before the boot message came
C8_Witness ==
    ~seenBooted /\ st \in {IDLE, RUN} /\ lastShown = UNKNOWN

\* C9: a call that ends with the latch set leaves blinkPhase and
\* lastBlinkToggleMs alone and writes nothing but the status colour, and
\* with the latch set the display shows the colour of lastShown.
C9_NoBlinkAfterBoot ==
    /\ [](seenBooted => <<color>> = ShowStatus(lastShown))
    /\ [][ seenBooted' =>
            /\ blinkPhase' = blinkPhase
            /\ lastBlinkToggleMs' = lastBlinkToggleMs
            /\ (Tick => written' =
                   (IF lastShown' # lastShown THEN ShowStatus(st')
                                               ELSE <<>>)) ]_vars

\* the call that set the latch came a blink interval after the last toggle
C9_Witness ==
    /\ seenBooted
    /\ st = BOOTED
    /\ clock = bootedAtMs
    /\ GeU32(Sub32(clock, lastBlinkToggleMs), BLINK_INTERVAL)
    /\ color = COL_GRN

\* C10: while the latch is not set, a call made at least BLINK_INTERVAL
\* after lastBlinkToggleMs flips blinkPhase, writes its colour (the other
\* one than shown before) and sets lastBlinkToggleMs to now; an earlier call
\* changes none of them.  The display starts red and shows the colour of
\* blinkPhase.
C10_BlinkAlternates ==
    /\ color = COL_RED /\ ~blinkPhase
    /\ [](~seenBooted => color = BlinkColor(blinkPhase))
    /\ [][ Tick /\ ~seenBooted' =>
            IF GeU32(Sub32(clock', lastBlinkToggleMs), BLINK_INTERVAL)
            THEN /\ blinkPhase' = ~blinkPhase
                 /\ written' = <<BlinkColor(blinkPhase')>>
                 /\ color' = BlinkColor(blinkPhase')
                 /\ color' # color
                 /\ lastBlinkToggleMs' = clock'
            ELSE /\ blinkPhase' = blinkPhase
                 /\ lastBlinkToggleMs' = lastBlinkToggleMs
                 /\ written' = <<>>
                 /\ color' = color ]_vars

\* red shown again by the second toggle, made exactly one interval after the
\* first (the clock value needs a call one millisecond short of the interval)
C10_Witness ==
    /\ ~seenBooted
    /\ ~blinkPhase
    /\ written = <<COL_RED>>
    /\ lastBlinkToggleMs = clock
    /\ clock = 3 * BLINK_INTERVAL - 1

\* C11: the write cursor never exceeds MAX_PARSE_LEN - 1, so the element
\* lineBuf[idx] that the next store (data byte or terminator) writes exists.
C11_CursorInBuffer ==
    /\ idx \in 0..(MAX_PARSE_LEN - 1)
    /\ idx \in DOMAIN lineBuf

\* the buffer is full, filler of the overlong line was dropped, and the rest
\* of that line is still to come in a later call
C11_Witness ==
    /\ idx = MAX_PARSE_LEN - 1
    /\ Len(rx) >= Len(MSG_RUN) + 1
    /\ SubSeq(rx, 1, Len(MSG_RUN) + 1) = MSG_RUN \o <<LF>>

\* the bytes a step reads
Consumed == SubSeq(rx, 1, Len(rx) - Len(rx'))

\* a call of loop() whose parse_status() read a line feed
LineDone == Tick /\ Consumed # <<>> /\ Consumed[Len(Consumed)] = LF

\* the buffer as the static initialiser leaves it
CleanBuf == [j \in 0..(MAX_PARSE_LEN - 1) |-> NUL]

\* well-formed lines that may follow
ProbeLines == Lines \cup {EmptyLine, SubSeq(MSG_IDLE, 1, Len(MSG_IDLE) - 1) \o <<LF>>}

\* the Status parse_status() returns for line l arriving whole, the cursor at
\* 0 and the buffer holding buf
NextStatus(buf, l) == ParseStatus(buf, 0, l, Len(l)).st

\* C12: a call that reads a line feed leaves the cursor at 0, and whatever
\* the buffer then holds (also the kept head of an overlong line), every
\* following well-formed line is classified as it is from a clean buffer.
C12_OverflowRecovery ==
    [][LineDone =>
          /\ idx' = 0
          /\ \A l \in ProbeLines :
                NextStatus(lineBuf', l) = NextStatus(CleanBuf, l)]_vars

\* the line after the overlong one was classified IDLE while the buffer
\* still holds filler of the overlong line behind it
C12_Witness ==
    /\ st = IDLE
    /\ idx = 0
    /\ lineBuf[MAX_PARSE_LEN - 2] = "x"

\* how many bytes parse_status() reads when the first n unread bytes have
\* arrived, and which of those are line feeds
ReadBy(n) == Len(rx) - Len(ParseStatus(lineBuf, idx, rx, n).rx)
LineFeedsIn(n) == {j \in 1..n : rx[j] = LF}

\* C13 as stated: whatever has arrived, one call reads all of it.
C13_AsClaimed == \A n \in 0..Len(rx) : ReadBy(n) = n

\* C13: one call reads the arrived bytes in order up to and including the
\* first line feed among them, or all of them when there is none; the bytes
\* behind that line feed stay unread for the next call.
C13_ReadsThroughFirstLF ==
    \A n \in 0..Len(rx) :
        /\ ParseStatus(lineBuf, idx, rx, n).rx = SubSeq(rx, ReadBy(n) + 1, Len(rx))
        /\ IF LineFeedsIn(n) = {}
           THEN ReadBy(n) = n
           ELSE /\ ReadBy(n) \in LineFeedsIn(n)
                /\ \A j \in LineFeedsIn(n) : ReadBy(n) <= j

\* a call has returned the boot line's status with a whole further line
\* behind it still unread
C13_Witness ==
    /\ st = BOOTED
    /\ idx = 0
    /\ rx \in ParseLines

\* loop() applied status s in this step
Applied(s) ==
    /\ lastShown' = s
    /\ lastKnownStatusMs' = clock'
    /\ s = BOOTED => seenBooted' /\ lastRequestMs' = clock'

\* this step changed nothing a status is applied to
NothingApplied ==
    /\ lastShown' = lastShown
    /\ seenBooted' = seenBooted
    /\ lastKnownStatusMs' = lastKnownStatusMs

\* C14: the unread bytes are a queue read from the front; a call reads at
\* most one line feed, as its last byte, so no line is read behind another
\* one's back; the status returned is that of the line just completed and
\* loop() applies it in that same call (BOOTED always, the others once the
\* latch is set); a call that completes no line applies nothing.
C14_LinesInOrder ==
    [][Tick =>
          /\ rx = Consumed \o rx'
          /\ \A j \in 1..(Len(Consumed) - 1) : Consumed[j] # LF
          /\ st' = ParseStatus(lineBuf, idx, Consumed, Len(Consumed)).st
          /\ IF LineDone /\ st' # UNKNOWN /\ (st' = BOOTED \/ seenBooted)
             THEN Applied(st')
             ELSE NothingApplied]_vars

\* the boot line and the status line behind it were both applied, the
\* status line last
C14_Witness ==
    /\ seenBooted
    /\ st = IDLE
    /\ lastShown = IDLE
    /\ sent = MaxParseLines
    /\ rx = <<>>

\* p is the beginning of t
IsPrefix(p, t) == Len(p) <= Len(t) /\ SubSeq(t, 1, Len(p)) = p

\* what parse_status() keeps of a line: no CR, at most MAX_PARSE_LEN - 1 chars
Stored(t) ==
    LET kept == SelectSeq(t, LAMBDA c : c # CR)
    IN  IF Len(kept) < MAX_PARSE_LEN THEN kept
        ELSE SubSeq(kept, 1, MAX_PARSE_LEN - 1)

\* the status of the first table entry whose prefix begins t, UNKNOWN when t
\* is empty or no entry's prefix does
RefClassify(t) ==
    LET hits == {k \in 1..Len(Table) : IsPrefix(Table[k].prefix, t)}
    IN  IF t = <<>> \/ hits = {} THEN UNKNOWN
        ELSE Table[CHOOSE k \in hits : \A m \in hits : k <= m].status

\* C15: the status returned for a completed line is that of the first table
\* entry whose prefix equals the leading chars of the stored line, compared
\* char by char (so letter case counts), and UNKNOWN for an empty line, a
\* line matching no entry, a proper prefix of an entry or another letter case.
C15_TableDriven ==
    [][Tick /\ rx # <<>> =>
          st' = RefClassify(Stored(SubSeq(rx, 1, Len(rx) - 1)))]_vars

\* "<idle" was read as a complete line and returned UNKNOWN
C15_Witness ==
    /\ st = UNKNOWN
    /\ rx = <<>>
    /\ sent > 0
    /\ \A j \in 1..Len(MSG_IDLE) :
          lineBuf[j - 1] = [MSG_IDLE EXCEPT ![2] = CaseFlip[MSG_IDLE[2]]][j]
    /\ lineBuf[Len(MSG_IDLE)] = NUL

\* the line a call reads whole, without its line feed
WholeLine == SubSeq(rx, 1, Len(rx) - 1)

\* C16 as stated: a line beginning with "Grbl" is classified BOOTED, as a
\* line beginning with "[MSG:INFO: Connected" is.
C16_AsClaimed ==
    [][Tick /\ rx # <<>>
          /\ (IsPrefix(GrblText, WholeLine) \/ IsPrefix(MSG_BOOTED, WholeLine))
          => st' = BOOTED]_vars

\* C16: a completed line is classified BOOTED, and sets the latch, exactly
\* when its stored chars begin with "[MSG:INFO: Connected"; a line beginning
\* with "Grbl" is UNKNOWN and leaves the latch as it was.
C16_OnlyConnectedBoots ==
    [][Tick /\ rx # <<>> =>
          /\ (st' = BOOTED) <=> IsPrefix(MSG_BOOTED, Stored(WholeLine))
          /\ seenBooted' <=> (seenBooted \/ IsPrefix(MSG_BOOTED, Stored(WholeLine)))
          /\ IsPrefix(GrblText, WholeLine) => st' = UNKNOWN]_vars

\* a "Grbl" line was read whole and the latch is still unset
C16_Witness ==
    /\ st = UNKNOWN
    /\ ~seenBooted
    /\ rx = <<>>
    /\ \A j \in 1..Len(GrblText) : lineBuf[j - 1] = GrblText[j]

\* C17: a call of loop() sends a poll exactly when, at its time now, both
\* the status timer (as this call leaves it) and the request timer (as the
\* call found it) are at least REQUEST_TIMEOUT_MS old; the latch has no
\* part in it, so the polls also come while it is unset.
C17_PollIgnoresLatch ==
    [][Tick =>
          LET due == /\ GeU32(Sub32(clock', lastKnownStatusMs'), REQUEST_TIMEOUT_MS)
                     /\ GeU32(Sub32(clock', lastRequestMs), REQUEST_TIMEOUT_MS)
          IN  IF due
              THEN /\ Len(polls') = Len(polls) + 1
                   /\ lastRequestMs' = clock'
              ELSE polls' = polls]_vars

\* two polls REQUEST_TIMEOUT_MS apart, the latch still unset
C17_Witness ==
    /\ ~seenBooted
    /\ Len(polls) >= 2
    /\ Sub32(polls[2].ms, polls[1].ms) = REQUEST_TIMEOUT_MS

\* C18 as stated: while the controller stays silent, a call of loop() that
\* finds the last poll REQUEST_TIMEOUT_MS old (in wrapping arithmetic) sends
\* the next one, also after millis() has wrapped.
C18_AsClaimed ==
    [][Tick /\ sent = 0
          /\ GeU32(Sub32(clock', lastRequestMs), REQUEST_TIMEOUT_MS)
          => /\ Len(polls') = Len(polls) + 1
             /\ polls'[Len(polls')].ms = clock']_vars

\* C19: whenever loop() has returned: with the latch unset nothing has been
\* shown yet (lastShown is UNKNOWN) and the LED has the blink color of
\* blinkPhase, red for false and purple for true; with the latch set
\* lastShown is one of the eight statuses and the LED has the color
\* showStatus writes for it.
C19_DisplayConsistent ==
    IF ~seenBooted
    THEN /\ lastShown = UNKNOWN
         /\ color = IF blinkPhase THEN COL_PUR ELSE COL_RED
    ELSE /\ lastShown \in BOOTED..ALARM
         /\ <<color>> = ShowStatus(lastShown)

\* the boot line turned the LED green and a Run report then cyan, after the
\* blink had left blinkPhase at purple
C19_Witness ==
    /\ seenBooted
    /\ blinkPhase
    /\ lastShown = RUN
    /\ color = COL_CYA

\* the position of the first unread line feed
FirstLF == CHOOSE k \in LineFeedsIn(Len(rx)) : \A j \in LineFeedsIn(Len(rx)) : k <= j

\* the call made when the first n unread bytes have arrived
CallWith(n) == ParseStatus(lineBuf, idx, rx, n)

\* C20: wherever the parser stands, also in the middle of a line: a call
\* that gets only the next n bytes of the current line, short of its line
\* feed, returns UNKNOWN, keeps the chars already stored and leaves the rest
\* unread, and the call that then gets the remainder of the line ends in
\* the same buffer, cursor, unread bytes and Status as one call that gets
\* the line whole; bytes arriving behind the line feed change nothing.  By
\* induction over the calls every split of the stream returns the same
\* Status for every line.  On the steps taken: a call that reads no line
\* feed returns UNKNOWN and only appends to the partial line.
C20_ChunkingIndependent ==
    /\ [](LineFeedsIn(Len(rx)) # {} =>
            \A k \in {FirstLF} : \A whole \in {CallWith(k)} :
                \A n \in 0..Len(rx) : \A p1 \in {CallWith(n)} :
                    IF n < k
                    THEN /\ p1.st = UNKNOWN
                         /\ p1.rx = SubSeq(rx, n + 1, Len(rx))
                         /\ p1.idx >= idx
                         /\ \A j \in 0..(idx - 1) : p1.lineBuf[j] = lineBuf[j]
                         /\ ParseStatus(p1.lineBuf, p1.idx, p1.rx, k - n) = whole
                    ELSE p1 = whole)
    /\ [][Tick /\ ~LineDone =>
            /\ st' = UNKNOWN
            /\ idx' >= idx
            /\ \A j \in 0..(idx - 1) : lineBuf'[j] = lineBuf[j]]_vars

\* a call has ended in the middle of the boot line: its first four chars
\* are stored, the rest is unread, and UNKNOWN was returned
C20_Witness ==
    /\ st = UNKNOWN
    /\ idx = 4
    /\ rx # <<>>
    /\ <<lineBuf[0], lineBuf[1], lineBuf[2], lineBuf[3]>> \o rx = BootLine

====
